---- MODULE Spec2Model ----
(***************************************************************************)
(* The command-line session engine of the terminal portfolio (src/App.tsx):*)
(* the App component's state, handleCommand, the word-guess game, the      *)
(* guestbook signing dialog, the guestbook gateway and the asynchronous    *)
(* completions (network responses, timers, the CodeTypewriter animation).  *)
(*                                                                         *)
(* A line of text is a sequence of one-character strings, so that trim(),  *)
(* toLowerCase() and toUpperCase() are computed character by character.    *)
(***************************************************************************)
EXTENDS Integers, Sequences, FiniteSets, TLC

VARIABLES
    history,              \* useState<Command[]>: the transcript
    currentCommand,       \* the input buffer
    isPlayingGame,
    gameWord,
    gameCategory,
    gameAttempts,
    gameGuessedLetters,
    showGameHint,
    isSigningGuestbook,
    guestbookStep,
    guestbookName,
    guestbookMessage,
    guestbookLoading,
    guestbookError,
    apiRequestCount,
    apiRateLimitResetTime,
    now,                  \* the clock, in units of one rate-limit window
    tasks,                \* in-flight async functions (awaiting the network)
    typewriters,          \* mounted CodeTypewriter instances, by transcript position
    onCompleteCalls,      \* by position: the calls of onComplete that the instance
                          \* mounted there (or the last one) has made or scheduled
    timers,               \* pending setTimeout callbacks
    typedName,            \* the raw line the user typed at the Name step
    suggestions,          \* TerminalInterface: useState<string[]>
    showSuggestions,      \* TerminalInterface: useState(false)
    lastKey               \* the last key event: the key and the line it acted on

gameVars == <<isPlayingGame, gameWord, gameCategory, gameAttempts,
              gameGuessedLetters, showGameHint>>
signVars == <<isSigningGuestbook, guestbookStep, guestbookName, guestbookMessage,
              typedName>>
apiVars  == <<guestbookLoading, guestbookError, apiRequestCount,
              apiRateLimitResetTime, now>>
uiVars == <<suggestions, showSuggestions, lastKey>>
vars == <<history, currentCommand, gameVars, signVars, apiVars,
          tasks, typewriters, onCompleteCalls, timers, uiVars>>

-----------------------------------------------------------------------------
(* Strings *)

UpperCase == <<"A","B","C","D","E","F","G","H","I","J","K","L","M",
               "N","O","P","Q","R","S","T","U","V","W","X","Y","Z">>
LowerCase == <<"a","b","c","d","e","f","g","h","i","j","k","l","m",
               "n","o","p","q","r","s","t","u","v","w","x","y","z">>

Range(s) == {s[i] : i \in DOMAIN s}

lowerChar(c) ==
    IF \E i \in 1..26 : UpperCase[i] = c
    THEN LowerCase[CHOOSE i \in 1..26 : UpperCase[i] = c]
    ELSE c

upperChar(c) ==
    IF \E i \in 1..26 : LowerCase[i] = c
    THEN UpperCase[CHOOSE i \in 1..26 : LowerCase[i] = c]
    ELSE c

toLowerCase(s) == [i \in 1..Len(s) |-> lowerChar(s[i])]
toUpperCase(s) == [i \in 1..Len(s) |-> upperChar(s[i])]

isSpace(c) == c = " "

\* String.prototype.trim: drop the leading and trailing white space
trim(s) ==
    IF \A i \in 1..Len(s) : isSpace(s[i])
    THEN <<>>
    ELSE LET first == CHOOSE i \in 1..Len(s) :
                          ~isSpace(s[i]) /\ \A j \in 1..(i-1) : isSpace(s[j])
             last  == CHOOSE i \in 1..Len(s) :
                          ~isSpace(s[i]) /\ \A j \in (i+1)..Len(s) : isSpace(s[j])
         IN  SubSeq(s, first, last)

\* String.prototype.includes for one character
includes(s, c) == \E i \in 1..Len(s) : s[i] = c

\* String.prototype.startsWith
startsWith(s, p) == Len(p) <= Len(s) /\ SubSeq(s, 1, Len(p)) = p

(* The command names of the switch in handleCommand *)
ABOUT      == <<"a","b","o","u","t">>
PROJECTS   == <<"p","r","o","j","e","c","t","s">>
SKILLS     == <<"s","k","i","l","l","s">>
EXPERIENCE == <<"e","x","p","e","r","i","e","n","c","e">>
CONTACT    == <<"c","o","n","t","a","c","t">>
DOWNLOAD   == <<"d","o","w","n","l","o","a","d">>
GAME       == <<"g","a","m","e">>
CLEAR      == <<"c","l","e","a","r">>
HELP       == <<"h","e","l","p">>
CHAT       == <<"c","h","a","t">>
MATRIX     == <<"m","a","t","r","i","x">>
GUESTBOOK  == <<"g","u","e","s","t","b","o","o","k">>
SIGN_GUESTBOOK == <<"s","i","g","n"," ">> \o GUESTBOOK
API_STATUS == <<"a","p","i","-","s","t","a","t","u","s">>
EXIT       == <<"e","x","i","t">>
HINT       == <<"h","i","n","t">>
EMPTY      == <<>>

AVAILABLE_COMMANDS ==
    <<ABOUT, PROJECTS, SKILLS, EXPERIENCE, CONTACT, DOWNLOAD, GAME, CLEAR,
      HELP, CHAT, MATRIX, GUESTBOOK, SIGN_GUESTBOOK, API_STATUS>>

\* the names for which getComponentSourceCode has an entry
componentCodes == {ABOUT, PROJECTS, SKILLS, EXPERIENCE, CONTACT, DOWNLOAD, HELP}

-----------------------------------------------------------------------------
(* The word-guess game: WordGuessGame() *)

wordCategories == <<
    [name |-> "Common Objects", words |-> <<
        <<"A","P","P","L","E">>,
        <<"C","H","A","I","R">>,
        <<"F","L","A","M","E">>,
        <<"G","R","A","P","E">>,
        <<"H","O","U","S","E">>,
        <<"J","U","I","C","E">>,
        <<"K","N","I","F","E">>,
        <<"L","I","G","H","T">>,
        <<"M","O","N","E","Y">>,
        <<"T","A","B","L","E">>,
        <<"W","A","T","E","R">>
    >>],
    [name |-> "Animals", words |-> <<
        <<"T","I","G","E","R">>,
        <<"P","A","N","D","A">>,
        <<"S","H","E","E","P">>,
        <<"H","O","R","S","E">>,
        <<"S","N","A","K","E">>,
        <<"E","A","G","L","E">>,
        <<"R","O","B","I","N">>,
        <<"W","H","A","L","E">>,
        <<"M","O","U","S","E">>,
        <<"Z","E","B","R","A">>
    >>],
    [name |-> "Colors", words |-> <<
        <<"G","R","E","E","N">>,
        <<"W","H","I","T","E">>,
        <<"B","L","A","C","K">>,
        <<"B","R","O","W","N">>,
        <<"P","E","A","C","H">>
    >>],
    [name |-> "Food", words |-> <<
        <<"P","I","Z","Z","A">>,
        <<"S","A","L","A","D">>,
        <<"B","R","E","A","D">>,
        <<"S","T","E","A","K">>,
        <<"O","L","I","V","E">>,
        <<"F","R","U","I","T">>,
        <<"C","A","N","D","Y">>,
        <<"P","A","S","T","A">>,
        <<"C","R","E","A","M">>,
        <<"D","O","N","U","T">>
    >>],
    [name |-> "Technology", words |-> <<
        <<"P","H","O","N","E">>,
        <<"M","O","U","S","E">>,
        <<"C","L","O","U","D">>,
        <<"E","M","A","I","L">>,
        <<"V","I","D","E","O">>,
        <<"M","E","D","I","A">>,
        <<"P","H","O","T","O">>,
        <<"S","O","U","N","D">>,
        <<"P","O","W","E","R">>,
        <<"R","O","B","O","T">>
    >>],
    [name |-> "Places", words |-> <<
        <<"B","E","A","C","H">>,
        <<"H","O","T","E","L">>,
        <<"S","T","O","R","E">>,
        <<"T","O","W","E","R">>,
        <<"P","L","A","Z","A">>,
        <<"F","I","E","L","D">>,
        <<"L","A","K","E">>,
        <<"H","O","U","S","E">>,
        <<"C","A","B","I","N">>,
        <<"C","L","I","F","F">>
    >>],
    [name |-> "Activities", words |-> <<
        <<"D","A","N","C","E">>,
        <<"S","M","I","L","E">>,
        <<"P","A","R","T","Y">>,
        <<"M","U","S","I","C">>,
        <<"O","C","E","A","N">>,
        <<"R","I","V","E","R">>
    >>]
>>

RECURSIVE flat(_)
\* Object.values(wordCategories).flat()
flat(cats) == IF cats = <<>> THEN <<>> ELSE Head(cats).words \o flat(Tail(cats))

flatWordBank == flat(wordCategories)

gameMaxAttempts == 6

\* getRandomWord, for the value randomIndex that Math.random() yields
getRandomWord(randomIndex) ==
    LET selectedWord == flatWordBank[randomIndex]
        holds(k) == \E j \in DOMAIN wordCategories[k].words :
                        wordCategories[k].words[j] = selectedWord
        first == CHOOSE k \in DOMAIN wordCategories :
                     holds(k) /\ \A m \in 1..(k-1) : ~holds(m)
    IN  [word |-> selectedWord, category |-> wordCategories[first].name]

(* A rendered response (React.ReactNode).  kind names the JSX block; the   *)
(* other fields hold the values that the block interpolates.  "undefined"  *)
(* is the unassigned `output`, "string" the empty string.                  *)
NoOutput ==
    [kind |-> "undefined", a |-> <<>>, b |-> <<>>, n |-> 0, e |-> "",
     fb |-> <<>>, gl |-> <<>>, hint |-> FALSE]

Out(k)            == [NoOutput EXCEPT !.kind = k]
OutA(k, a)        == [NoOutput EXCEPT !.kind = k, !.a = a]
OutAB(k, a, b)    == [NoOutput EXCEPT !.kind = k, !.a = a, !.b = b]

\* typeof output === 'object' && output (a JSX element)
isObject(output) == output.kind \notin {"undefined", "string"}

\* formatAlphabet: the 26-letter tracker
formatAlphabet(guessedLetters, targetWord) ==
    [i \in 1..26 |->
        IF UpperCase[i] \notin guessedLetters THEN "unused"
        ELSE IF includes(targetWord, UpperCase[i]) THEN "blue"
        ELSE "red"]

\* formatGuessOutput: the per-position colours
formatGuessOutputMutFrequency(guess, targetWord) ==
    [index \in 1..Len(guess) |->
        IF index <= Len(targetWord) /\ guess[index] = targetWord[index] THEN "green"
        ELSE IF \E j \in 1..Len(targetWord) :
                    /\ targetWord[j] = guess[index]
                    /\ ~(j <= Len(guess) /\ guess[j] = targetWord[j])
             THEN "yellow"
        ELSE "gray"]
formatGuessOutput(guess, targetWord) ==
    [index \in 1..Len(guess) |->
        IF index <= Len(targetWord) /\ guess[index] = targetWord[index] THEN "green"
        ELSE IF includes(targetWord, guess[index]) THEN "yellow"
        ELSE "gray"]

\* upperGuess.length !== 5
wrongLengthMutShort(upperGuess) == Len(upperGuess) > 5
wrongLength(upperGuess) == Len(upperGuess) # 5

\* upperGuess === targetWord
isCorrectGuessMutCase(upperGuess, guess, targetWord) == guess = targetWord
isCorrectGuess(upperGuess, guess, targetWord) == upperGuess = targetWord

\* attemptNum >= maxAttempts
attemptsExhaustedMutLate(attemptNum, maxAttempts) == attemptNum > maxAttempts
attemptsExhausted(attemptNum, maxAttempts) == attemptNum >= maxAttempts

\* processGuess; guessedLetters is the Set it adds the letters to
processGuess(guess, targetWord, category, attemptNum, maxAttempts, guessedLetters, showHint) ==
    LET upperGuess == toUpperCase(guess)
        letters    == guessedLetters \cup Range(upperGuess)
        alphabet   == formatAlphabet(letters, targetWord)
        formattedGuess == formatGuessOutput(upperGuess, targetWord)
        attemptsLeft   == maxAttempts - attemptNum
    IN  IF wrongLength(upperGuess)
        THEN [output |-> [NoOutput EXCEPT !.kind = "invalidLength",
                              !.hint = showHint, !.gl = alphabet],
              isCorrect |-> FALSE, isValid |-> FALSE, guessedLetters |-> letters]
        ELSE IF isCorrectGuess(upperGuess, guess, targetWord)
        THEN [output |-> [NoOutput EXCEPT !.kind = "win", !.a = targetWord,
                              !.n = attemptNum, !.fb = formattedGuess,
                              !.gl = alphabet],
              isCorrect |-> TRUE, isValid |-> TRUE, guessedLetters |-> letters]
        ELSE IF attemptsExhausted(attemptNum, maxAttempts)
        THEN [output |-> [NoOutput EXCEPT !.kind = "loss", !.a = targetWord,
                              !.fb = formattedGuess, !.gl = alphabet],
              isCorrect |-> FALSE, isValid |-> TRUE, guessedLetters |-> letters]
        ELSE [output |-> [NoOutput EXCEPT !.kind = "tryAgain", !.n = attemptsLeft,
                              !.fb = formattedGuess, !.gl = alphabet,
                              !.hint = showHint],
              isCorrect |-> FALSE, isValid |-> TRUE, guessedLetters |-> letters]

-----------------------------------------------------------------------------
(* The transcript: Command[] *)

\* the fixed command labels that completions write
ENTRY_SUBMITTED    == <<"E","n","t","r","y"," ","s","u","b","m","i","t","t","e","d">>
ERROR              == <<"E","r","r","o","r">>
API_STATUS_RESULTS == <<"A","P","I"," ","S","t","a","t","u","s"," ",
                        "R","e","s","u","l","t","s">>
API_STATUS_ERROR   == <<"A","P","I"," ","S","t","a","t","u","s"," ",
                        "E","r","r","o","r">>
GUESTBOOK_RESULTS  == GUESTBOOK \o <<" ","r","e","s","u","l","t","s">>

\* type Command; id = 0 stands for an absent id
Entry(command, output, id) == [command |-> command, output |-> output, id |-> id]

\* Array.prototype.findIndex / findLastIndex; test[i] is the value of the
\* callback on h[i], and 0 stands for -1
findIndex(h, test) ==
    IF \E i \in DOMAIN h : test[i]
    THEN CHOOSE i \in DOMAIN h : test[i] /\ \A j \in 1..(i-1) : ~test[j]
    ELSE 0

findLastIndex(h, test) ==
    IF \E i \in DOMAIN h : test[i]
    THEN CHOOSE i \in DOMAIN h : test[i] /\ \A j \in (i+1)..Len(h) : ~test[j]
    ELSE 0

(* CodeTypewriter.  An instance lives at a transcript position (the        *)
(* transcript is rendered with key={i}); stage "typing" is                 *)
(* hasCompletedRef.current = false, stage "done" is true.                  *)
NoTypewriter == [stage |-> "none", id |-> 0, cmd |-> <<>>, name |-> <<>>]

isTypewriter(entry) == entry.output.kind = "typewriter"

\* the onComplete callback that processComponentCommand builds
onCompleteMutByCommand(h, id, cmd, name) ==
    LET index == findIndex(h, [i \in DOMAIN h |-> h[i].command = cmd])
    IN  IF index # 0
        THEN [h EXCEPT ![index] = Entry(cmd, OutA("component", name), id)]
        ELSE h
onComplete(h, id, cmd, name) ==
    LET index == findIndex(h, [i \in DOMAIN h |-> h[i].id = id /\ h[i].command = cmd])
    IN  IF index # 0
        THEN [h EXCEPT ![index] = Entry(cmd, OutA("component", name), id)]
        ELSE h

\* the fallbackTimer callback that processComponentCommand builds
fallbackTimer(h, id, cmd, name) ==
    LET index == findIndex(h, [i \in DOMAIN h |-> h[i].id = id])
    IN  IF index # 0 /\ h[index].output.kind \notin {"undefined", "string"}
        THEN [h EXCEPT ![index] = Entry(cmd, OutA("component", name), id)]
        ELSE h

\* the instance at position i loses its entry: it is unmounted, or it is
\* handed another entry's props
displaced(h, tw, i) ==
    /\ tw[i].stage # "none"
    /\ \/ i > Len(h)
       \/ ~isTypewriter(h[i])
       \/ h[i].id # tw[i].id

\* the cleanup effect of the instance at position i calls onComplete:
\* !hasCompletedRef.current && lines.length > 0
cleanupCallsMutNoRef(h, tw, i) == displaced(h, tw, i)
cleanupCalls(h, tw, i) == displaced(h, tw, i) /\ tw[i].stage = "typing"

RECURSIVE cleanups(_, _, _, _)
\* the cleanup effects of the displaced instances, run in position order
\* on the transcript h; each calls onComplete unless hasCompletedRef is set
cleanups(h, hNew, tw, i) ==
    IF i > Len(tw) THEN h
    ELSE IF cleanupCalls(hNew, tw, i)
         THEN cleanups(onComplete(h, tw[i].id, tw[i].cmd, tw[i].name), hNew, tw, i + 1)
         ELSE cleanups(h, hNew, tw, i + 1)

\* the instances after the transcript h is rendered over the instances tw
mounted(h, tw) ==
    [i \in 1..Len(h) |->
        IF ~isTypewriter(h[i]) THEN NoTypewriter
        ELSE IF i <= Len(tw) /\ tw[i].stage # "none"
             THEN IF h[i].id = tw[i].id THEN tw[i]
                  ELSE [stage |-> "done", id |-> h[i].id, cmd |-> h[i].command,
                        name |-> h[i].output.a]
             ELSE [stage |-> "typing", id |-> h[i].id, cmd |-> h[i].command,
                   name |-> h[i].output.a]]

\* the positions at which rendering h over the instances tw mounts a new
\* instance
newlyMounted(h, tw) ==
    {i \in 1..Len(h) : /\ isTypewriter(h[i])
                       /\ ~(i <= Len(tw) /\ tw[i].stage # "none")}

\* the calls counted in c after h is rendered over the instances tw: one
\* more for each instance whose cleanup effect calls onComplete, none yet
\* for a new instance (a count above one is kept)
counted(h, tw, c) ==
    LET unmounted == {i \in DOMAIN tw : cleanupCalls(h, tw, i)}
        called    == [i \in DOMAIN c |-> IF i \in unmounted THEN c[i] + 1 ELSE c[i]]
    IN  [i \in DOMAIN c \cup newlyMounted(h, tw) |->
            IF i \notin newlyMounted(h, tw) THEN called[i]
            ELSE IF i \in DOMAIN c /\ called[i] > 1 THEN called[i]
            ELSE 0]

RECURSIVE render(_, _, _)
\* React commits the transcript h: instances are mounted, kept or unmounted,
\* and the transcript that the cleanup effects leave is committed in turn
render(h, tw, c) ==
    LET h2 == cleanups(h, h, tw, 1)
    IN  IF h2 = h
        THEN [history |-> h, typewriters |-> mounted(h, tw),
              calls |-> counted(h, tw, c)]
        ELSE render(h2, mounted(h, tw), counted(h, tw, c))

\* an id that no entry, instance or timer holds (randomId is unique)
freshId ==
    LET used == {history[i].id : i \in DOMAIN history}
                  \cup {typewriters[i].id : i \in DOMAIN typewriters}
                  \cup {t.id : t \in timers}
    IN  CHOOSE n \in 1..(Cardinality(used) + 1) : n \notin used

-----------------------------------------------------------------------------
(* The guestbook gateway *)

MAX_REQUESTS_PER_MINUTE == 50

\* checkRateLimit, for the apiRequestCount and apiRateLimitResetTime that
\* the calling closure holds
rateLimited(count, resetTime) ==
    count >= MAX_REQUESTS_PER_MINUTE /\ resetTime > now

\* response.ok of a settled request: "ok" is a 2xx response with the expected
\* body, "unexpected" one with another JSON body, "unparsable" one whose body
\* is not JSON, "http" a non-2xx response; "network" is a rejected fetch
responseOk(outcome) == outcome \in {"ok", "unexpected", "unparsable"}

\* the try block of checkApiHealth: the value it returns, or "throw"
healthTry(limited, response) ==
    IF limited THEN "false"
    ELSE IF response = "network" THEN "throw"          \* fetch rejects
    ELSE IF ~responseOk(response) THEN "false"          \* !response.ok
    ELSE IF response = "unparsable" THEN "throw"        \* response.json() rejects
    ELSE IF response = "ok" THEN "true"                 \* status OK, database connected
    ELSE "false"

\* checkApiHealth: its catch block returns false
checkApiHealthMutNoCatch(limited, response) == healthTry(limited, response)
checkApiHealth(limited, response) ==
    IF healthTry(limited, response) = "throw" THEN "false"
    ELSE healthTry(limited, response)

\* the length validation of submitGuestbookEntry: "" when it passes
validateMutOffByOne(name, message) ==
    IF name = <<>> \/ Len(name) > 51 THEN "name"
    ELSE IF message = <<>> \/ Len(message) > 501 THEN "message"
    ELSE ""
validate(name, message) ==
    IF name = <<>> \/ Len(name) > 50 THEN "name"
    ELSE IF message = <<>> \/ Len(message) > 500 THEN "message"
    ELSE ""

\* an async function in flight, with the values its closure captured when
\* handleCommand ran: cmd, guestbookName, command, and the state of that render
Task(kind, stage, cmd, name, msg) ==
    [kind |-> kind, stage |-> stage, cmd |-> cmd, name |-> name, msg |-> msg,
     typed |-> typedName, count |-> apiRequestCount,
     resetTime |-> apiRateLimitResetTime, err |-> guestbookError,
     loading |-> guestbookLoading, cors |-> FALSE]

\* setHistory of the guestbook submission's completion: replace the loading
\* entry found by findLastIndex, or append
signResolved(h, t, success) ==
    LET loadingEntryIndex ==
            findLastIndex(h, [i \in DOMAIN h |->
                                  h[i].command = t.cmd /\ isObject(h[i].output)])
        entry == IF success
                 THEN Entry(ENTRY_SUBMITTED, OutAB("success", t.name, t.msg), 0)
                 ELSE Entry(ERROR, [Out("submitError") EXCEPT !.e = t.err], 0)
    IN  IF loadingEntryIndex # 0
        THEN [h EXCEPT ![loadingEntryIndex] = entry]
        ELSE Append(h, entry)

\* setHistory of the 'guestbook' command's completion: replace the entry
\* found by findIndex, or append
guestbookResolved(h, t) ==
    LET latestIndex ==
            findIndex(h, [i \in DOMAIN h |->
                              h[i].command = GUESTBOOK /\ isObject(h[i].output)])
        entriesOutput == [Out("entries") EXCEPT !.e = t.err, !.hint = t.loading]
    IN  IF latestIndex # 0
        THEN [h EXCEPT ![latestIndex] = Entry(GUESTBOOK, entriesOutput, 0)]
        ELSE Append(h, Entry(GUESTBOOK_RESULTS, entriesOutput, 0))

\* setHistory of the 'api-status' command's completion
apiStatusResolved(h, corsOk, apiOk) ==
    Append(h, Entry(API_STATUS_RESULTS,
                    [Out("apiStatus") EXCEPT !.hint = corsOk /\ apiOk,
                                             !.e = IF apiOk THEN "healthy" ELSE "failed"],
                    0))

\* setHistory of the catch block of the 'api-status' command's completion
apiStatusFailed(h) == Append(h, Entry(API_STATUS_ERROR, Out("apiStatusError"), 0))

-----------------------------------------------------------------------------
(* handleCommand *)

\* React commits a new transcript
Commit(h) ==
    LET r == render(h, typewriters, onCompleteCalls)
    IN  /\ history' = r.history
        /\ typewriters' = r.typewriters
        /\ onCompleteCalls' = r.calls

\* setHistory(prev => [...prev, { command: cmd, output }])
AppendEntry(cmd, output) == Commit(Append(history, Entry(cmd, output, 0)))

\* the isSigningGuestbook branch, guestbookStep === 'message', non-empty line:
\* the placeholder is appended and submitGuestbookEntry starts
submitMessage(cmd, command) ==
    LET t  == Task("sign", "health", cmd, guestbookName, command)
        h1 == Append(history, Entry(cmd, Out("submitting"), 0))
    IN  /\ guestbookMessage' = command
        /\ guestbookStep' = "complete"
        /\ currentCommand' = EMPTY
        /\ IF rateLimited(apiRequestCount, apiRateLimitResetTime)
           THEN \* submitGuestbookEntry throws before its first await
                /\ guestbookError' = "rate"
                /\ guestbookLoading' = FALSE
                /\ isSigningGuestbook' = FALSE
                /\ Commit(signResolved(h1, t, FALSE))
                /\ UNCHANGED <<tasks, apiRequestCount>>
           ELSE \* checkRateLimit in submitGuestbookEntry and in checkApiHealth
                /\ apiRequestCount' = apiRequestCount + 2
                /\ guestbookError' = ""
                /\ guestbookLoading' = TRUE
                /\ tasks' = Append(tasks, t)
                /\ Commit(h1)
                /\ UNCHANGED isSigningGuestbook
        /\ UNCHANGED <<gameVars, guestbookName, typedName,
                       apiRateLimitResetTime, now, timers>>

\* command.trim() === ''
isEmptyLineMutNever(command) == FALSE
isEmptyLine(command) == trim(command) = EMPTY

\* if (isSigningGuestbook) { ... }
signingBranch(cmd, command) ==
    IF command = EXIT
    THEN /\ isSigningGuestbook' = FALSE
         /\ AppendEntry(cmd, Out("cancelled"))
         /\ currentCommand' = EMPTY
         /\ UNCHANGED <<gameVars, guestbookStep, guestbookName, guestbookMessage,
                        typedName, apiVars, tasks, timers>>
    ELSE IF guestbookStep = "name" /\ ~isEmptyLine(command)
    THEN /\ guestbookName' = command
         /\ guestbookStep' = "message"
         /\ typedName' = cmd
         /\ AppendEntry(cmd, OutA("namePrompt", command))
         /\ currentCommand' = EMPTY
         /\ UNCHANGED <<gameVars, isSigningGuestbook, guestbookMessage,
                        apiVars, tasks, timers>>
    ELSE IF guestbookStep = "message" /\ ~isEmptyLine(command)
    THEN submitMessage(cmd, command)
    ELSE /\ AppendEntry(cmd,
                IF guestbookStep = "name" THEN Out("nameRequired")
                ELSE IF guestbookStep = "message" THEN Out("messageRequired")
                ELSE NoOutput)
         /\ currentCommand' = EMPTY
         /\ UNCHANGED <<gameVars, signVars, apiVars, tasks, timers>>

\* isPlayingGame && !['exit', 'hint'].includes(command)
routesToGuessMutSign(command) ==
    isPlayingGame /\ command \notin {EXIT, HINT, SIGN_GUESTBOOK}
routesToGuessMutHint(command) == isPlayingGame /\ command # EXIT
routesToGuessMutExit(command) == isPlayingGame /\ command # HINT
routesToGuessMutClear(command) == isPlayingGame /\ command \notin {EXIT, HINT, CLEAR}
routesToGuess(command) == isPlayingGame /\ command \notin {EXIT, HINT}

\* result.isCorrect || (result.isValid && gameAttempts + 1 >= gameMaxAttempts)
gameEndsMutOffByOne(result) ==
    result.isCorrect \/ (result.isValid /\ gameAttempts + 1 > gameMaxAttempts)
gameEnds(result) ==
    result.isCorrect \/ (result.isValid /\ gameAttempts + 1 >= gameMaxAttempts)

\* the guess branch of handleCommand
guessBranch(cmd, command) ==
    IF command = EMPTY
    THEN /\ AppendEntry(cmd, Out("enterGuess"))
         /\ currentCommand' = EMPTY
         /\ UNCHANGED <<gameVars, signVars, apiVars, tasks, timers>>
    ELSE LET result == processGuess(command, gameWord, gameCategory,
                                    gameAttempts + 1, gameMaxAttempts,
                                    gameGuessedLetters, showGameHint)
         IN  /\ gameGuessedLetters' = result.guessedLetters
             /\ gameAttempts' = IF result.isValid THEN gameAttempts + 1
                                ELSE gameAttempts
             /\ IF gameEnds(result)
                THEN isPlayingGame' = FALSE /\ showGameHint' = FALSE
                ELSE UNCHANGED <<isPlayingGame, showGameHint>>
             /\ AppendEntry(cmd, result.output)
             /\ currentCommand' = EMPTY
             /\ UNCHANGED <<gameWord, gameCategory, signVars, apiVars, tasks, timers>>

\* isPlayingGame && command === 'hint'
hintBranch(cmd) ==
    /\ showGameHint' = TRUE
    /\ AppendEntry(cmd, [Out("hint") EXCEPT
                            !.gl = formatAlphabet(gameGuessedLetters, gameWord),
                            !.n = gameMaxAttempts - gameAttempts])
    /\ currentCommand' = EMPTY
    /\ UNCHANGED <<isPlayingGame, gameWord, gameCategory, gameAttempts,
                   gameGuessedLetters, signVars, apiVars, tasks, timers>>

\* the indexes that Math.floor(Math.random() * flatWordBank.length) is drawn
\* from: APPLE, MOUSE (listed in two categories) and LAKE
RandomIndexes == {1, 20, 53}

\* processComponentCommand: the typing entry and its fallback timer
processComponentCommand(cmd, name) ==
    LET randomId == freshId
    IN  /\ Commit(Append(history, Entry(cmd, OutA("typewriter", name), randomId)))
        /\ timers' = timers \cup
                {[kind |-> "fallback", id |-> randomId, cmd |-> cmd, name |-> name]}
        /\ currentCommand' = EMPTY
        /\ UNCHANGED <<gameVars, signVars, apiVars, tasks>>

\* case 'game'
startGameMutKeepLetters(cmd) ==
    \E randomIndex \in RandomIndexes :
        LET randomWordData == getRandomWord(randomIndex)
        IN  /\ gameWord' = randomWordData.word
            /\ gameCategory' = randomWordData.category
            /\ gameAttempts' = 0
            /\ gameGuessedLetters' = gameGuessedLetters
            /\ showGameHint' = FALSE
            /\ isPlayingGame' = TRUE
            /\ AppendEntry(cmd, [Out("gameIntro") EXCEPT
                                    !.gl = formatAlphabet({}, randomWordData.word),
                                    !.n = gameMaxAttempts])
            /\ currentCommand' = EMPTY
            /\ UNCHANGED <<signVars, apiVars, tasks, timers>>
startGame(cmd) ==
    \E randomIndex \in RandomIndexes :
        LET randomWordData == getRandomWord(randomIndex)
        IN  /\ gameWord' = randomWordData.word
            /\ gameCategory' = randomWordData.category
            /\ gameAttempts' = 0
            /\ gameGuessedLetters' = {}
            /\ showGameHint' = FALSE
            /\ isPlayingGame' = TRUE
            /\ AppendEntry(cmd, [Out("gameIntro") EXCEPT
                                    !.gl = formatAlphabet({}, randomWordData.word),
                                    !.n = gameMaxAttempts])
            /\ currentCommand' = EMPTY
            /\ UNCHANGED <<signVars, apiVars, tasks, timers>>

\* case 'exit'
exitCommandMutKeepsGame(cmd) ==
    /\ AppendEntry(cmd, IF isPlayingGame THEN OutA("gameExited", gameWord)
                        ELSE Out("noGame"))
    /\ currentCommand' = EMPTY
    /\ UNCHANGED <<gameVars, signVars, apiVars, tasks, timers>>
exitCommand(cmd) ==
    /\ isPlayingGame' = FALSE
    /\ AppendEntry(cmd, IF isPlayingGame THEN OutA("gameExited", gameWord)
                        ELSE Out("noGame"))
    /\ currentCommand' = EMPTY
    /\ UNCHANGED <<gameWord, gameCategory, gameAttempts, gameGuessedLetters,
                   showGameHint, signVars, apiVars, tasks, timers>>

\* case 'api-status'
apiStatusCommand(cmd) ==
    /\ guestbookLoading' = TRUE
    /\ AppendEntry(cmd, Out("apiTesting"))
    /\ currentCommand' = EMPTY
    /\ tasks' = Append(tasks, Task("apiStatus", "cors", cmd, <<>>, <<>>))
    /\ UNCHANGED <<gameVars, signVars, guestbookError, apiRequestCount,
                   apiRateLimitResetTime, now, timers>>

\* case 'guestbook': the placeholder is appended and fetchGuestbookEntries starts
guestbookCommand(cmd) ==
    LET t  == Task("guestbook", "rhealth", cmd, <<>>, <<>>)
        h1 == Append(history, Entry(cmd, Out("guestbookLoading"), 0))
    IN  /\ currentCommand' = EMPTY
        /\ IF rateLimited(apiRequestCount, apiRateLimitResetTime)
           THEN \* fetchGuestbookEntries returns null before its first await
                /\ guestbookError' = "rate"
                /\ guestbookLoading' = FALSE
                /\ Commit(guestbookResolved(h1, t))
                /\ UNCHANGED <<tasks, apiRequestCount>>
           ELSE \* checkRateLimit in fetchGuestbookEntries and in checkApiHealth
                /\ apiRequestCount' = apiRequestCount + 2
                /\ guestbookError' = ""
                /\ guestbookLoading' = TRUE
                /\ tasks' = Append(tasks, t)
                /\ Commit(h1)
        /\ UNCHANGED <<gameVars, signVars, apiRateLimitResetTime, now, timers>>

\* case 'sign guestbook'
signGuestbookCommandMutSkipName(cmd) ==
    /\ isSigningGuestbook' = TRUE
    /\ guestbookStep' = "message"
    /\ guestbookName' = EMPTY
    /\ guestbookMessage' = EMPTY
    /\ AppendEntry(cmd, Out("signPrompt"))
    /\ currentCommand' = EMPTY
    /\ UNCHANGED <<gameVars, typedName, apiVars, tasks, timers>>
signGuestbookCommand(cmd) ==
    /\ isSigningGuestbook' = TRUE
    /\ guestbookStep' = "name"
    /\ guestbookName' = EMPTY
    /\ guestbookMessage' = EMPTY
    /\ AppendEntry(cmd, Out("signPrompt"))
    /\ currentCommand' = EMPTY
    /\ UNCHANGED <<gameVars, typedName, apiVars, tasks, timers>>

\* case 'clear'
clearCommand ==
    /\ Commit(<<>>)
    /\ currentCommand' = EMPTY
    /\ UNCHANGED <<gameVars, signVars, apiVars, tasks, timers>>

\* the other cases: one entry (none for the empty line) and no state change
plainCommandMutEchoesEmpty(cmd, command) ==
    /\ AppendEntry(cmd, IF command \in {CHAT, MATRIX}
                        THEN Out(IF command = CHAT THEN "chat" ELSE "matrix")
                        ELSE Out("notFound"))
    /\ currentCommand' = EMPTY
    /\ UNCHANGED <<gameVars, signVars, apiVars, tasks, timers>>
plainCommand(cmd, command) ==
    /\ IF command = EMPTY
       THEN UNCHANGED <<history, typewriters, onCompleteCalls>>
       ELSE AppendEntry(cmd, IF command \in {CHAT, MATRIX}
                             THEN Out(IF command = CHAT THEN "chat" ELSE "matrix")
                             ELSE Out("notFound"))
    /\ currentCommand' = EMPTY
    /\ UNCHANGED <<gameVars, signVars, apiVars, tasks, timers>>

\* switch (command)
dispatch(cmd, command) ==
    IF command \in componentCodes THEN processComponentCommand(cmd, command)
    ELSE IF command = GAME THEN startGame(cmd)
    ELSE IF command = EXIT THEN exitCommand(cmd)
    ELSE IF command = API_STATUS THEN apiStatusCommand(cmd)
    ELSE IF command = GUESTBOOK THEN guestbookCommand(cmd)
    ELSE IF command = SIGN_GUESTBOOK THEN signGuestbookCommand(cmd)
    ELSE IF command = CLEAR THEN clearCommand
    ELSE plainCommand(cmd, command)

handleCommand(cmd) ==
    LET command == toLowerCase(trim(cmd))
    IN  IF isSigningGuestbook THEN signingBranch(cmd, command)
        ELSE IF routesToGuess(command) THEN guessBranch(cmd, command)
        ELSE IF isPlayingGame /\ command = HINT THEN hintBranch(cmd)
        ELSE dispatch(cmd, command)

-----------------------------------------------------------------------------
(* Asynchronous completions *)

RemoveAt(s, i) == SubSeq(s, 1, i - 1) \o SubSeq(s, i + 1, Len(s))

\* the continuation after `await submitGuestbookEntry(...)`: the submission
\* returned success (true) or caught an error (false)
signCompletes(i, success, error) ==
    /\ isSigningGuestbook' = FALSE
    /\ Commit(signResolved(history, tasks[i], success))
    /\ guestbookError' = error
    /\ guestbookLoading' = FALSE
    /\ tasks' = RemoveAt(tasks, i)
    /\ UNCHANGED <<apiRequestCount>>

\* submitGuestbookEntry of task i resumes with the outcome of the request it
\* awaits: "ok", "http" (a non-2xx status) or "network" (fetch rejects)
signResponse(i, outcome) ==
    LET t == tasks[i]
    IN  /\ CASE t.stage = "health" ->
                 \* checkApiHealth resolves
                 IF checkApiHealth(FALSE, outcome) = "throw"
                 THEN signCompletes(i, FALSE, outcome)
                 ELSE IF checkApiHealth(FALSE, outcome) # "true"
                 THEN signCompletes(i, FALSE, "unavailable")
                 ELSE IF validate(t.name, t.msg) # ""
                 THEN signCompletes(i, FALSE, validate(t.name, t.msg))
                 ELSE /\ tasks' = [tasks EXCEPT ![i].stage = "post"]
                      /\ UNCHANGED <<history, typewriters, onCompleteCalls, isSigningGuestbook,
                                     guestbookError, guestbookLoading, apiRequestCount>>
              [] t.stage = "post" ->
                 \* the POST resolves; on success fetchGuestbookEntries(1) starts
                 IF ~responseOk(outcome)
                 THEN signCompletes(i, FALSE, outcome)
                 ELSE IF rateLimited(t.count, t.resetTime)
                 THEN signCompletes(i, TRUE, "rate")
                 ELSE /\ tasks' = [tasks EXCEPT ![i].stage = "rhealth"]
                      /\ apiRequestCount' = apiRequestCount + 2
                      /\ guestbookError' = ""
                      /\ guestbookLoading' = TRUE
                      /\ UNCHANGED <<history, typewriters, onCompleteCalls, isSigningGuestbook>>
              [] t.stage = "rhealth" ->
                 \* checkApiHealth of the refresh resolves
                 IF checkApiHealth(FALSE, outcome) = "throw"
                 THEN signCompletes(i, TRUE, outcome)
                 ELSE IF checkApiHealth(FALSE, outcome) # "true"
                 THEN signCompletes(i, TRUE, "unavailable")
                 ELSE /\ tasks' = [tasks EXCEPT ![i].stage = "rget"]
                      /\ UNCHANGED <<history, typewriters, onCompleteCalls, isSigningGuestbook,
                                     guestbookError, guestbookLoading, apiRequestCount>>
              [] t.stage = "rget" ->
                 \* the GET of the refresh resolves
                 signCompletes(i, TRUE, IF outcome \in {"ok", "unexpected"}
                                        THEN guestbookError ELSE outcome)
        /\ UNCHANGED <<currentCommand, gameVars, guestbookStep, guestbookName,
                       guestbookMessage, typedName, apiRateLimitResetTime, now, timers>>

\* fetchGuestbookEntries of the 'guestbook' command resumes
guestbookResponse(i, outcome) ==
    LET t == tasks[i]
    IN  /\ IF t.stage = "rhealth" /\ checkApiHealth(FALSE, outcome) = "true"
           THEN /\ tasks' = [tasks EXCEPT ![i].stage = "rget"]
                /\ UNCHANGED <<history, typewriters, onCompleteCalls,
                               guestbookError, guestbookLoading>>
           ELSE /\ Commit(guestbookResolved(history, t))
                /\ guestbookError' = IF /\ t.stage = "rhealth"
                                        /\ checkApiHealth(FALSE, outcome) # "throw"
                                     THEN "unavailable"
                                     ELSE IF outcome \in {"ok", "unexpected"}
                                     THEN guestbookError
                                     ELSE outcome
                /\ guestbookLoading' = FALSE
                /\ tasks' = RemoveAt(tasks, i)
        /\ UNCHANGED <<currentCommand, gameVars, signVars, apiRequestCount,
                       apiRateLimitResetTime, now, timers>>

\* the async function of the 'api-status' command resumes
apiStatusResponse(i, outcome) ==
    LET t == tasks[i]
    IN  /\ CASE t.stage = "cors" ->
                 \* testCorsSetup resolves; checkApiHealth starts
                 IF rateLimited(t.count, t.resetTime)
                 THEN /\ Commit(apiStatusResolved(history, responseOk(outcome),
                                                  checkApiHealth(TRUE, outcome) = "true"))
                      /\ guestbookLoading' = FALSE
                      /\ tasks' = RemoveAt(tasks, i)
                      /\ UNCHANGED apiRequestCount
                 ELSE /\ tasks' = [tasks EXCEPT ![i].stage = "health",
                                                ![i].cors = responseOk(outcome)]
                      /\ apiRequestCount' = apiRequestCount + 1
                      /\ UNCHANGED <<history, typewriters, onCompleteCalls, guestbookLoading>>
              [] t.stage = "health" ->
                 /\ IF checkApiHealth(FALSE, outcome) = "throw"
                    THEN Commit(apiStatusFailed(history))
                    ELSE Commit(apiStatusResolved(history, t.cors,
                                    checkApiHealth(FALSE, outcome) = "true"))
                 /\ guestbookLoading' = FALSE
                 /\ tasks' = RemoveAt(tasks, i)
                 /\ UNCHANGED apiRequestCount
        /\ UNCHANGED <<currentCommand, gameVars, signVars, guestbookError,
                       apiRateLimitResetTime, now, timers>>

Outcomes == {"ok", "unexpected", "unparsable", "http", "network"}

\* a request that task i awaits settles
NetworkResponse(i, outcome) ==
    /\ i \in DOMAIN tasks
    /\ CASE tasks[i].kind = "sign"      -> signResponse(i, outcome)
         [] tasks[i].kind = "guestbook" -> guestbookResponse(i, outcome)
         [] tasks[i].kind = "apiStatus" -> apiStatusResponse(i, outcome)

\* CodeTypewriter at position i types its last character: the typing effect
\* sets hasCompletedRef and schedules onComplete in 500 ms
TypingEnds(i) ==
    /\ i \in DOMAIN typewriters
    /\ typewriters[i].stage = "typing"
    /\ typewriters' = [typewriters EXCEPT ![i].stage = "done"]
    /\ onCompleteCalls' = [onCompleteCalls EXCEPT ![i] = @ + 1]
    /\ timers' = timers \cup
            {[kind |-> "onComplete", id |-> typewriters[i].id,
              cmd |-> typewriters[i].cmd, name |-> typewriters[i].name]}
    /\ UNCHANGED <<history, currentCommand, gameVars, signVars, apiVars, tasks>>

\* a pending setTimeout callback runs
TimerFires(t) ==
    /\ t \in timers
    /\ timers' = timers \ {t}
    /\ Commit(CASE t.kind = "onComplete" -> onComplete(history, t.id, t.cmd, t.name)
                [] t.kind = "fallback"   -> fallbackTimer(history, t.id, t.cmd, t.name)
                [] t.kind = "matrixClose" ->
                       SelectSeq(history, LAMBDA entry :
                           ~(entry.command = MATRIX /\ isObject(entry.output))))
    /\ UNCHANGED <<currentCommand, gameVars, signVars, apiVars, tasks>>

\* the Close button of the ChatFrame at position i: its onClose
ChatClose(i) ==
    /\ i \in DOMAIN history
    /\ history[i].output.kind = "chat"
    /\ Commit(SelectSeq(history, LAMBDA entry :
                  ~(entry.command = CHAT /\ isObject(entry.output))))
    /\ UNCHANGED <<currentCommand, gameVars, signVars, apiVars, tasks, timers>>

\* the close button of the MatrixRain at position i: its onClose sets a
\* 100 ms timer
MatrixClose(i) ==
    /\ i \in DOMAIN history
    /\ history[i].output.kind = "matrix"
    /\ timers' = timers \cup
            {[kind |-> "matrixClose", id |-> 0, cmd |-> MATRIX, name |-> <<>>]}
    /\ UNCHANGED <<history, typewriters, onCompleteCalls, currentCommand, gameVars, signVars,
                   apiVars, tasks>>

-----------------------------------------------------------------------------
(* Specifications *)

Init ==
    /\ history = <<>>
    /\ currentCommand = EMPTY
    /\ isPlayingGame = FALSE
    /\ gameWord = EMPTY
    /\ gameCategory = ""
    /\ gameAttempts = 0
    /\ gameGuessedLetters = {}
    /\ showGameHint = FALSE
    /\ isSigningGuestbook = FALSE
    /\ guestbookStep = "name"
    /\ guestbookName = EMPTY
    /\ guestbookMessage = EMPTY
    /\ guestbookLoading = FALSE
    /\ guestbookError = ""
    /\ apiRequestCount = 0
    /\ apiRateLimitResetTime = 1
    /\ now = 0
    /\ tasks = <<>>
    /\ typewriters = <<>>
    /\ onCompleteCalls = <<>>
    /\ timers = {}
    /\ typedName = EMPTY
    /\ suggestions = <<>>
    /\ showSuggestions = FALSE
    /\ lastKey = [key |-> "none", input |-> EMPTY]

(* Lines the user types *)
ALICE       == <<"A","l","i","c","e">>
HI          == <<"H","i">>
APPLE_MIXED == <<"a","P","p","L","e">>
GUESTBOOK_CAPITAL == <<"G","u","e","s","t","b","o","o","k">>
HINT_CAPITAL == <<"H","i","n","t">>
EXIT_PADDED  == <<" ","E","x","i","t"," ">>
BLANK        == <<" ">>
CHAT_CAPITAL == <<"C","h","a","t">>
NAME_50      == [i \in 1..50 |-> "n"]
NAME_51      == [i \in 1..51 |-> "n"]
MESSAGE_500  == [i \in 1..500 |-> "m"]
MESSAGE_501  == [i \in 1..501 |-> "m"]
EAGLE_MIXED  == <<"e","A","g","L","e">>

(* Bounds of the model *)
MaxHistory      == 5   \* transcript entries (Spec)
MaxGameHistory  == 7   \* transcript entries (SpecGame)
MaxAsyncHistory == 3   \* transcript entries (SpecAsync, SpecClear, SpecWidgets)
MaxLossHistory  == 9   \* transcript entries (SpecLoss)
MaxPlayHistory  == 5   \* transcript entries (SpecPlay)
MaxSignHistory  == 6   \* transcript entries (SpecSign)
MaxTabHistory   == 2   \* transcript entries (SpecTab)
MaxTasks       == 2   \* async functions in flight
MaxTimers      == 2   \* pending timers
MaxRateHistory  == 4   \* transcript entries (SpecRate)
MaxLengthHistory == 4  \* transcript entries (SpecLength)
MaxFeedbackHistory == 4 \* transcript entries (SpecFeedback)
MaxRouteHistory == 3   \* transcript entries (SpecRoute)
MaxTypingHistory == 3  \* transcript entries (SpecTyping)
MaxOnceHistory  == 2   \* transcript entries (SpecOnce)
MaxRequests    == 4   \* apiRequestCount at which no further line is typed

\* the user may type another line
Bounded(maxHistory) ==
    /\ Len(history) < maxHistory
    /\ Len(tasks) < MaxTasks
    /\ Cardinality(timers) < MaxTimers
    /\ apiRequestCount < MaxRequests

\* handleTabCompletion: AVAILABLE_COMMANDS.filter(cmd => cmd.startsWith(input.toLowerCase()))
matchingCommandsMutCase(input) ==
    SelectSeq(AVAILABLE_COMMANDS, LAMBDA cmd : startsWith(cmd, input))
matchingCommands(input) ==
    SelectSeq(AVAILABLE_COMMANDS, LAMBDA cmd : startsWith(cmd, toLowerCase(input)))

\* handleTabCompletion
handleTabCompletion(input) ==
    IF Len(matchingCommands(input)) = 1
    THEN /\ currentCommand' = matchingCommands(input)[1]
         /\ showSuggestions' = FALSE
         /\ UNCHANGED suggestions
    ELSE IF Len(matchingCommands(input)) > 1
    THEN /\ suggestions' = matchingCommands(input)
         /\ showSuggestions' = TRUE
         /\ UNCHANGED currentCommand
    ELSE UNCHANGED <<currentCommand, suggestions, showSuggestions>>

\* handleKeyDown, e.key === 'Tab'
TabKey ==
    /\ handleTabCompletion(currentCommand)
    /\ lastKey' = [key |-> "Tab", input |-> currentCommand]
    /\ UNCHANGED <<history, gameVars, signVars, apiVars, tasks, typewriters,
                   onCompleteCalls, timers>>

\* handleKeyDown, e.key === 'Enter', with cmd in the input buffer
EnterKey(cmd) ==
    /\ handleCommand(cmd)
    /\ showSuggestions' = FALSE
    /\ lastKey' = [key |-> "Enter", input |-> cmd]
    /\ UNCHANGED suggestions

\* handleKeyDown for any other key, and the onChange that leaves input in
\* the buffer
KeyTyped(input) ==
    /\ currentCommand' = input
    /\ showSuggestions' = FALSE
    /\ lastKey' = [key |-> "char", input |-> input]
    /\ UNCHANGED <<history, gameVars, signVars, apiVars, tasks, typewriters, onCompleteCalls,
                   timers, suggestions>>

\* the user types a line and presses Enter
Submit(Lines, maxHistory) ==
    \E cmd \in Lines : Bounded(maxHistory) /\ EnterKey(cmd)

Response ==
    \E i \in 1..MaxTasks, outcome \in Outcomes :
        NetworkResponse(i, outcome) /\ UNCHANGED uiVars

Typing == \E i \in DOMAIN typewriters : TypingEnds(i) /\ UNCHANGED uiVars

Timer == \E t \in timers : TimerFires(t) /\ UNCHANGED uiVars

(* Spec: the signing dialog, the game and the gateway's responses *)
SessionLines == {SIGN_GUESTBOOK, ALICE, HI, EXIT, GAME}

Next ==
    \/ Submit(SessionLines, MaxHistory)
    \/ Response

Spec == Init /\ [][Next]_vars

(* SpecGame: one word-guess game after another *)
GameLines == {GAME, APPLE_MIXED, ALICE}

NextGame == Submit(GameLines, MaxGameHistory)

SpecGame == Init /\ [][NextGame]_vars

(* SpecAsync: the commands that the gateway resolves *)
AsyncLines == {API_STATUS, GUESTBOOK, GUESTBOOK_CAPITAL}

NextAsync ==
    \/ Submit(AsyncLines, MaxAsyncHistory)
    \/ Response

SpecAsync == Init /\ [][NextAsync]_vars

(* SpecClear: the typed component commands and 'api-status', with 'clear' *)
ClearLines == {ABOUT, API_STATUS, CLEAR}

NextClear ==
    \/ Submit(ClearLines, MaxAsyncHistory)
    \/ Response
    \/ Typing
    \/ Timer

SpecClear == Init /\ [][NextClear]_vars

(* SpecLoss: games played to the last attempt, with 'Hint' and the line    *)
(* 'game' (a guess of length 4 while a game is played) in between          *)
LossLines == {GAME, ALICE, HINT_CAPITAL}

NextLoss == Submit(LossLines, MaxLossHistory)

SpecLoss == Init /\ [][NextLoss]_vars

(* SpecPlay: every kind of line a player types during a game *)
PlayLines == {GAME, APPLE_MIXED, HI, BLANK, HINT_CAPITAL, EXIT_PADDED}

NextPlay == Submit(PlayLines, MaxPlayHistory)

SpecPlay == Init /\ [][NextPlay]_vars

(* SpecSign: the signing dialog, with blank lines, and the gateway's responses *)
SignLines == {SIGN_GUESTBOOK, ALICE, BLANK, EXIT}

NextSign ==
    \/ Submit(SignLines, MaxSignHistory)
    \/ Response

SpecSign == Init /\ [][NextSign]_vars

(* SpecWidgets: the chat frame and the matrix animation, and their close buttons *)
WidgetLines == {CHAT, CHAT_CAPITAL, MATRIX, HI, CLEAR}

ChatClosed == \E i \in DOMAIN history : ChatClose(i) /\ UNCHANGED uiVars

MatrixClosed == \E i \in DOMAIN history : MatrixClose(i) /\ UNCHANGED uiVars

NextWidgets ==
    \/ Submit(WidgetLines, MaxAsyncHistory)
    \/ ChatClosed
    \/ MatrixClosed
    \/ Timer

SpecWidgets == Init /\ [][NextWidgets]_vars

(* SpecTab: the input buffer is typed, completed with Tab and submitted *)
Partials == {<<"s">>, <<"s","i">>, <<"G">>, <<"g","a">>, GUESTBOOK, <<"x">>, BLANK}

Typed == \E input \in Partials : KeyTyped(input)

Enter == Bounded(MaxTabHistory) /\ EnterKey(currentCommand)

NextTab ==
    \/ Typed
    \/ TabKey
    \/ Enter

SpecTab == Init /\ [][NextTab]_vars

(* SpecRate: the gateway near the end of its budget.  The run starts after
   24 listings of the guestbook in one window (two counted calls each) and
   'clear': two calls of the budget of 50 are left. *)
RateLines == {API_STATUS, GUESTBOOK}

InitRate ==
    /\ history = <<>>
    /\ currentCommand = EMPTY
    /\ isPlayingGame = FALSE
    /\ gameWord = EMPTY
    /\ gameCategory = ""
    /\ gameAttempts = 0
    /\ gameGuessedLetters = {}
    /\ showGameHint = FALSE
    /\ isSigningGuestbook = FALSE
    /\ guestbookStep = "name"
    /\ guestbookName = EMPTY
    /\ guestbookMessage = EMPTY
    /\ guestbookLoading = FALSE
    /\ guestbookError = ""
    /\ apiRequestCount = MAX_REQUESTS_PER_MINUTE - 2
    /\ apiRateLimitResetTime = 1
    /\ now = 0
    /\ tasks = <<>>
    /\ typewriters = <<>>
    /\ onCompleteCalls = <<>>
    /\ timers = {}
    /\ typedName = EMPTY
    /\ suggestions = <<>>
    /\ showSuggestions = FALSE
    /\ lastKey = [key |-> "Enter", input |-> CLEAR]

SubmitRate ==
    \E cmd \in RateLines :
        /\ Len(history) < MaxRateHistory
        /\ Len(tasks) < MaxTasks
        /\ EnterKey(cmd)

NextRate ==
    \/ SubmitRate
    \/ Response

SpecRate == InitRate /\ [][NextRate]_vars

(* SpecLength: the signing dialog with names and messages at and beyond the
   length limits, and the gateway's responses *)
LengthLines == {SIGN_GUESTBOOK, NAME_50, NAME_51, MESSAGE_500, MESSAGE_501}

NextLength ==
    \/ Submit(LengthLines, MaxLengthHistory)
    \/ Response

SpecLength == Init /\ [][NextLength]_vars

(* SpecFeedback: guesses with a repeated letter *)
FeedbackLines == {GAME, EAGLE_MIXED, ALICE}

NextFeedback == Submit(FeedbackLines, MaxFeedbackHistory)

SpecFeedback == Init /\ [][NextFeedback]_vars

(* SpecRoute: names of registered commands typed inside the game and the
   signing dialog *)
RouteLines == {GAME, SIGN_GUESTBOOK, CLEAR, ABOUT}

NextRoute ==
    \/ Submit(RouteLines, MaxRouteHistory)
    \/ Response

SpecRoute == Init /\ [][NextRoute]_vars

(* SpecTyping: component commands, repeated, with their animations and
   fallback timers *)
TypingLines == {ABOUT, SKILLS, CLEAR}

NextTyping ==
    \/ Submit(TypingLines, MaxTypingHistory)
    \/ Typing
    \/ Timer

SpecTyping == Init /\ [][NextTyping]_vars

(* SpecOnce: a component command and 'clear', which unmounts the animation.
   Every animation that stays mounted types its last character, and every
   setTimeout callback runs. *)
OnceLines == {ABOUT, CLEAR}

NextOnce ==
    \/ Submit(OnceLines, MaxOnceHistory)
    \/ Typing
    \/ Timer

\* the transcript positions, and the timers that the typing effects of the
\* animations of OnceLines set
OncePositions == 1..MaxOnceHistory

OnceTimers ==
    [kind : {"onComplete"},
     id   : 1..(MaxOnceHistory + MaxTimers - 1),
     cmd  : {ABOUT},
     name : {ABOUT}]

SpecOnce ==
    /\ Init
    /\ [][NextOnce]_vars
    /\ \A i \in OncePositions : WF_vars(TypingEnds(i) /\ UNCHANGED uiVars)
    /\ \A t \in OnceTimers : WF_vars(TimerFires(t) /\ UNCHANGED uiVars)

-----------------------------------------------------------------------------
(* Properties *)

Last(s) == s[Len(s)]

\* the step appends one entry to the transcript
Appends == Len(history') = Len(history) + 1

\* the responses that stand for an asynchronous result still to come
Placeholders == {"submitting", "guestbookLoading", "apiTesting", "typewriter"}

\* nothing asynchronous is pending: no request, no timer, no animation
Quiescent ==
    /\ tasks = <<>>
    /\ timers = {}
    /\ \A i \in DOMAIN typewriters : typewriters[i].stage # "typing"

\* C1: in every reachable state the game mode and the guestbook-signing mode
\* are not both active.
C1_AtMostOneSubSession == ~(isPlayingGame /\ isSigningGuestbook)

\* a game is being played while a guestbook submission is still in flight
C1_Witness ==
    /\ isPlayingGame
    /\ \E i \in DOMAIN tasks : tasks[i].kind = "sign"

\* C2: a step rewrites a transcript entry in place only if that entry shows
\* the placeholder of a pending operation; every other entry keeps its input
\* and its response (a consequence of: a resolution replaces only its own
\* placeholder).
C2_OnlyPlaceholdersRewritten ==
    [][\A k \in DOMAIN history :
          (k <= Len(history') /\ history'[k] # history[k])
              => history[k].output.kind \in Placeholders]_vars

\* C3: once nothing asynchronous is pending any more, no transcript entry
\* still shows a pending placeholder.
C3_NoPlaceholderLeft ==
    Quiescent => \A i \in DOMAIN history : history[i].output.kind \notin Placeholders

\* C4: the step that submits the message of the signing dialog (it starts
\* submitGuestbookEntry) leaves the session in Idle.
C4_IdleOnceSubmitted ==
    [][(Len(tasks') > Len(tasks) /\ Last(tasks').kind = "sign")
          => (~isSigningGuestbook' /\ ~isPlayingGame')]_vars

\* C5: while the submission of a finished dialog is in flight and no other
\* sub-session has been entered, the line 'game' is dispatched to its
\* registry handler: the game's intro is appended and the game starts.
C5_RegistryCommandDispatched ==
    [][(/\ \E i \in DOMAIN tasks : tasks[i].kind = "sign"
        /\ guestbookStep = "complete"
        /\ ~isPlayingGame
        /\ Appends
        /\ toLowerCase(trim(Last(history').command)) = GAME)
          => (Last(history').output.kind = "gameIntro" /\ isPlayingGame')]_vars

\* C6: when an asynchronous operation completes and its placeholder is no
\* longer in the transcript (a request: the transcript holds no placeholder
\* at all; an animation: no entry holds its id), the result is appended as
\* a new entry.
C6_MissingPlaceholderAppends ==
    [][(\/ /\ Len(tasks') < Len(tasks)
           /\ \A i \in DOMAIN history : history[i].output.kind \notin Placeholders
        \/ \E t \in timers \ timers' :
               /\ t.kind = "onComplete"
               /\ \A i \in DOMAIN history : history[i].id # t.id)
          => Appends]_vars

\* C7: when the submission of a dialog succeeds with its placeholder still
\* the last entry, createEntry was called with the name and the message as
\* typed, the transcript then ends with the success entry that shows them as
\* typed, and the mode is Idle.
C7_SignedAsTyped ==
    [][\A i \in DOMAIN tasks :
          (/\ tasks[i].kind = "sign"
           /\ tasks' = RemoveAt(tasks, i)
           /\ Last(history) = Entry(tasks[i].cmd, Out("submitting"), 0)
           /\ history' # history
           /\ \E k \in DOMAIN history' : history'[k].output.kind = "success"
                                         /\ history'[k] # history[k])
              => /\ tasks[i].name = trim(tasks[i].typed)
                 /\ tasks[i].msg = trim(tasks[i].cmd)
                 /\ Last(history').output =
                        OutAB("success", trim(tasks[i].typed), trim(tasks[i].cmd))
                 /\ ~isSigningGuestbook' /\ ~isPlayingGame']_vars

\* C8: when a submission fails, the error entry replaces the 'submitting'
\* placeholder of that submission, the signing dialog is left, and
\* the submission is not started again.
C8_FailureResolvesPlaceholder ==
    [][\A k \in DOMAIN history' :
          (/\ Len(tasks') < Len(tasks)
           /\ history'[k].output.kind = "submitError"
           /\ (k > Len(history) \/ history'[k] # history[k]))
              => \E i \in DOMAIN tasks :
                    /\ tasks[i].kind = "sign"
                    /\ tasks' = RemoveAt(tasks, i)
                    /\ k <= Len(history)
                    /\ history[k] = Entry(tasks[i].cmd, Out("submitting"), 0)
                    /\ ~isSigningGuestbook']_vars

\* the transcript entries of the game in progress (or of the last game) that
\* answer an accepted, length-5 guess
acceptedGuesses ==
    LET intro == findLastIndex(history, [i \in DOMAIN history |->
                                              history[i].output.kind = "gameIntro"])
    IN  {i \in DOMAIN history :
            i > intro /\ history[i].output.kind \in {"tryAgain", "win", "loss"}}

\* C9: 0 <= attempts <= maxAttempts = 6 in every reachable state; while the
\* game mode is active fewer than 6 guesses have been accepted, and the
\* transcript of one game never holds more than 6 accepted guesses.
C9_AttemptsBounded ==
    /\ gameAttempts \in 0..gameMaxAttempts
    /\ gameMaxAttempts = 6
    /\ isPlayingGame => gameAttempts < gameMaxAttempts
    /\ Cardinality(acceptedGuesses) <= 6
    /\ (\E i \in DOMAIN history : history[i].output.kind = "gameIntro")
           => Cardinality(acceptedGuesses) = gameAttempts

\* a game in which six guesses were accepted, after which the mode was left
C9_Witness ==
    /\ gameAttempts = 6
    /\ ~isPlayingGame
    /\ Cardinality(acceptedGuesses) = 6

\* C10: while PlayingGame, a submitted 5-character line that equals the
\* target word in any letter case sets the mode to Idle and appends, as the
\* last entry, the win message with the number of accepted guesses of the
\* game, the winning one included.
C10_WinOnTargetWord ==
    [][(/\ isPlayingGame
        /\ Appends
        /\ Len(Last(history').command) = 5
        /\ toUpperCase(Last(history').command) = gameWord)
          => /\ ~isPlayingGame' /\ ~isSigningGuestbook'
             /\ Last(history').output.kind = "win"
             /\ Last(history').output.a = gameWord
             /\ Last(history').output.n = gameAttempts + 1
             /\ Last(history').output.n = Cardinality(acceptedGuesses')]_vars

\* the target word typed in mixed case wins as the first guess of one game
\* and as the third guess of another
C10_Witness ==
    /\ ~isPlayingGame
    /\ history # <<>>
    /\ Last(history).command = APPLE_MIXED
    /\ Last(history).output.kind = "win"
    /\ Last(history).output.n = 3
    /\ \E i \in DOMAIN history : /\ history[i].command = APPLE_MIXED
                                 /\ history[i].output.kind = "win"
                                 /\ history[i].output.n = 1


\* the line of the entry that the step appends, as handleCommand reads it
typed == toLowerCase(trim(Last(history').command))

\* the step appends the answer to a guess of length 5 that is not the target
WrongGuess ==
    /\ isPlayingGame
    /\ Appends
    /\ typed \notin {EXIT, HINT}
    /\ Len(typed) = 5
    /\ toUpperCase(typed) # gameWord

\* C11: in a game, each of the first five length-5 guesses that differ from
\* the target leaves the game mode active, and the sixth appends the loss
\* message that reveals the target word and sets the mode to Idle, whatever
\* 'hint' lines and wrong-length lines came in between.
C11_SixthWrongGuessLoses ==
    [][WrongGuess =>
          IF Cardinality(acceptedGuesses) < 5
          THEN /\ isPlayingGame'
               /\ Last(history').output.kind = "tryAgain"
          ELSE /\ Cardinality(acceptedGuesses) = 5
               /\ ~isPlayingGame' /\ ~isSigningGuestbook'
               /\ Last(history').output.kind = "loss"
               /\ Last(history').output.a = gameWord]_vars

\* a game lost on the sixth wrong guess, with a hint and a wrong-length line
\* between the guesses
C11_Witness ==
    /\ ~isPlayingGame
    /\ history # <<>>
    /\ Last(history).output.kind = "loss"
    /\ Last(history).output.a = gameWord
    /\ Cardinality(acceptedGuesses) = 6
    /\ LET intro == findLastIndex(history, [i \in DOMAIN history |->
                                              history[i].output.kind = "gameIntro"])
       IN  /\ \E i \in DOMAIN history : i > intro /\ history[i].output.kind = "hint"
           /\ \E i \in DOMAIN history :
                  i > intro /\ history[i].output.kind = "invalidLength"

\* C12: the target word of every game consists of exactly 5 upper-case
\* letters A-Z (every word of the bank does), so that some guess of length 5
\* wins the game.
C12_TargetHasFiveLetters ==
    isPlayingGame =>
        /\ Len(gameWord) = 5
        /\ \A i \in DOMAIN gameWord : gameWord[i] \in Range(UpperCase)

\* C13: a guess rejected for its length leaves every field of the game state
\* as it was: guessedLetters, the target word, its category, the attempts,
\* the hint flag and the mode.
C13_RejectedGuessKeepsGameState ==
    [][(/\ isPlayingGame
        /\ Appends
        /\ Last(history').output.kind = "invalidLength")
          => UNCHANGED gameVars]_vars

\* C14: while a game is played, a line other than 'exit' and 'hint' whose
\* trimmed length is not 5 (the empty line included) appends a validation
\* message, does not change attempts and keeps the game mode.
C14_WrongLengthRejected ==
    [][(/\ isPlayingGame
        /\ Appends
        /\ typed \notin {EXIT, HINT}
        /\ Len(typed) # 5)
          => /\ Last(history').output.kind =
                    (IF typed = EMPTY THEN "enterGuess" ELSE "invalidLength")
             /\ history' = Append(history, Last(history'))
             /\ gameAttempts' = gameAttempts
             /\ isPlayingGame' /\ ~isSigningGuestbook']_vars

\* after one accepted guess, a blank line and a line of two letters were
\* both rejected and the game goes on
C14_Witness ==
    /\ isPlayingGame
    /\ gameAttempts = 1
    /\ \E i, j \in DOMAIN history :
          /\ history[i].output.kind = "tryAgain"
          /\ i < j
          /\ history[j].command = BLANK /\ history[j].output.kind = "enterGuess"
    /\ Last(history).command = HI
    /\ Last(history).output.kind = "invalidLength"

\* C15: 'hint' submitted while a game is played leaves attempts,
\* guessedLetters, the target word, its category and the mode unchanged; it
\* marks the hint as revealed and appends one entry, the hint with the
\* letter tracker.
C15_HintIsFree ==
    [][(isPlayingGame /\ Appends /\ typed = HINT)
          => /\ UNCHANGED <<gameAttempts, gameGuessedLetters, gameWord,
                            gameCategory, isPlayingGame>>
             /\ showGameHint'
             /\ history' = Append(history, Last(history'))
             /\ Last(history').output.kind = "hint"
             /\ Last(history').output.gl = formatAlphabet(gameGuessedLetters, gameWord)
             /\ UNCHANGED <<signVars, apiVars, tasks, timers>>]_vars

\* 'Hint' was answered after one accepted guess of the same game
C15_Witness ==
    /\ isPlayingGame
    /\ showGameHint
    /\ gameAttempts = 1
    /\ gameGuessedLetters # {}
    /\ Last(history).command = HINT_CAPITAL
    /\ Last(history).output.kind = "hint"

\* the step is the start of a game
StartsGame == Appends /\ Last(history').output.kind = "gameIntro"

\* C16: guessedLetters never loses a letter except when a game starts, and
\* 'game' submitted in Idle starts a game with guessedLetters empty, attempts
\* 0, the hint not revealed and a target word of the word bank, whatever the
\* previous game left behind.
C16_FreshGame ==
    [][/\ ~StartsGame => gameGuessedLetters \subseteq gameGuessedLetters'
       /\ (~isPlayingGame /\ ~isSigningGuestbook /\ Appends /\ typed = GAME)
             => /\ StartsGame
                /\ isPlayingGame'
                /\ gameGuessedLetters' = {}
                /\ gameAttempts' = 0
                /\ ~showGameHint'
                /\ gameWord' \in Range(flatWordBank)]_vars

\* a game has just started after a game with a guess and a hint was exited
C16_Witness ==
    /\ isPlayingGame
    /\ gameGuessedLetters = {}
    /\ gameAttempts = 0
    /\ ~showGameHint
    /\ Len(history) >= 5
    /\ Last(history).output.kind = "gameIntro"
    /\ history[Len(history) - 1].output.kind = "gameExited"
    /\ history[Len(history) - 2].output.kind = "hint"
    /\ history[Len(history) - 3].output.kind = "tryAgain"

\* C17: 'exit' in any letter case and with surrounding white space,
\* submitted while a game is played, sets the mode to Idle and appends an
\* entry that reveals the target word, without changing attempts.
C17_ExitEndsGame ==
    [][(isPlayingGame /\ Appends /\ typed = EXIT)
          => /\ ~isPlayingGame' /\ ~isSigningGuestbook'
             /\ history' = Append(history, Last(history'))
             /\ Last(history').output.kind = "gameExited"
             /\ Last(history').output.a = gameWord
             /\ gameAttempts' = gameAttempts]_vars

\* ' Exit ' ended a game in which one guess had been accepted
C17_Witness ==
    /\ ~isPlayingGame
    /\ gameAttempts = 1
    /\ history # <<>>
    /\ Last(history).command = EXIT_PADDED
    /\ Last(history).output.kind = "gameExited"
    /\ Last(history).output.a = gameWord

\* C18: while the signing dialog is at step Name or at step Message, an
\* empty or whitespace-only line appends the 'required' error of that step
\* and leaves step, name, message and mode unchanged; no gateway call is made.
C18_BlankLineRejected ==
    [][(/\ isSigningGuestbook
        /\ guestbookStep \in {"name", "message"}
        /\ Appends
        /\ typed = EMPTY)
          => /\ Last(history').output.kind =
                    (IF guestbookStep = "name" THEN "nameRequired"
                     ELSE "messageRequired")
             /\ history' = Append(history, Last(history'))
             /\ UNCHANGED <<isSigningGuestbook, guestbookStep, guestbookName,
                            guestbookMessage, isPlayingGame>>
             /\ UNCHANGED <<tasks, apiRequestCount, guestbookLoading>>]_vars

\* a blank line was rejected at step Name and another one at step Message
C18_Witness ==
    /\ isSigningGuestbook
    /\ guestbookStep = "message"
    /\ guestbookName = toLowerCase(ALICE)
    /\ tasks = <<>>
    /\ \E i \in DOMAIN history : /\ history[i].command = BLANK
                                 /\ history[i].output.kind = "nameRequired"
    /\ Last(history).command = BLANK
    /\ Last(history).output.kind = "messageRequired"

\* C19: the dialog proceeds Name then Message.  Step Name is entered only by
\* 'sign guestbook' in Idle, step Message only from step Name by a non-empty
\* name, and submitGuestbookEntry starts only at step Message, once for the
\* non-empty message, with the name stored at step Name; the dialog is then
\* at step Complete, where no submission starts.
C19_NameThenMessage ==
    [][/\ (guestbookStep' = "name" /\ guestbookStep # "name")
             => /\ ~isSigningGuestbook /\ isSigningGuestbook'
                /\ Appends /\ typed = SIGN_GUESTBOOK
                /\ guestbookName' = EMPTY
       /\ (guestbookStep' = "message" /\ guestbookStep # "message")
             => /\ isSigningGuestbook /\ guestbookStep = "name"
                /\ Appends /\ typed # EMPTY
                /\ guestbookName' = typed
       /\ Len(tasks') > Len(tasks)
             => /\ isSigningGuestbook /\ guestbookStep = "message"
                /\ guestbookName # EMPTY
                /\ Appends /\ typed # EMPTY
                /\ tasks' = Append(tasks, Last(tasks'))
                /\ Last(tasks').kind = "sign"
                /\ Last(tasks').name = guestbookName
                /\ Last(tasks').msg = typed
                /\ guestbookStep' = "complete"
       /\ (/\ isSigningGuestbook /\ guestbookStep = "message"
           /\ Appends /\ typed \notin {EMPTY, EXIT}
           /\ ~rateLimited(apiRequestCount, apiRateLimitResetTime))
             => Len(tasks') = Len(tasks) + 1]_vars

\* the submission of a second dialog is in flight after the submission of a
\* first dialog has completed
C19_Witness ==
    /\ guestbookStep = "complete"
    /\ Len(tasks) = 1
    /\ tasks[1].kind = "sign"
    /\ tasks[1].name = toLowerCase(ALICE)
    /\ Len(history) = 6
    /\ history[3].output.kind \in {"success", "submitError"}
    /\ history[4].output.kind = "signPrompt"
    /\ history[6].output.kind = "submitting"

\* C20: the number of transcript entries decreases only when the transcript
\* is cleared: no other step (a line, an asynchronous completion, the close
\* button of the chat frame or of the matrix animation) removes an entry.
C20_OnlyClearRemoves ==
    [][Len(history') < Len(history)
          => /\ history' = <<>>
             /\ UNCHANGED timers]_vars

\* C21: the transcript grows only by the submission of a line, which
\* contributes exactly one entry, appended at the end, whose input is the
\* submitted line; so N submissions leave N entries in submission order.
C21_OneEntryPerLine ==
    [][Len(history') > Len(history)
          => /\ history' = Append(history, Last(history'))
             /\ Last(history').command = lastKey'.input
             /\ Len(tasks') >= Len(tasks)]_vars

\* the transcript h with every input in lower case and trimmed
lowered(h) == [i \in DOMAIN h |-> [h[i] EXCEPT !.command = toLowerCase(trim(@))]]

\* C22: dispatch ignores the letter case: when the listing of a 'guestbook'
\* command typed in any letter case resolves, the transcript is, up to the
\* case of the inputs, the one that the lower-case command leaves.
C22_CaseInsensitiveResult ==
    [][\A i \in DOMAIN tasks :
          (tasks[i].kind = "guestbook" /\ Len(tasks') < Len(tasks)
                /\ tasks' = RemoveAt(tasks, i))
              => lowered(history') = guestbookResolved(lowered(history), tasks[i])]_vars

\* C23: in Idle, a non-empty line that is not a registered command name
\* appends exactly one 'command not found' entry and leaves the mode and the
\* state of the sub-sessions unchanged.
C23_UnknownCommandNotFound ==
    [][(/\ ~isPlayingGame /\ ~isSigningGuestbook
        /\ Appends
        /\ lastKey'.key = "Enter" /\ Last(history').command = lastKey'.input
        /\ tasks' = tasks
        /\ typed \notin Range(AVAILABLE_COMMANDS))
          => /\ history' = Append(history, Last(history'))
             /\ Last(history').output.kind = "notFound"
             /\ UNCHANGED <<gameVars, signVars>>]_vars

\* C24: Enter on an empty or whitespace-only line in Idle creates no
\* transcript entry and changes nothing but the input buffer, which is
\* emptied.
C24_BlankLineIgnored ==
    [][(/\ ~isPlayingGame /\ ~isSigningGuestbook
        /\ lastKey'.key = "Enter" /\ lastKey' # lastKey
        /\ trim(lastKey'.input) = EMPTY)
          => /\ currentCommand' = EMPTY
             /\ UNCHANGED <<history, gameVars, signVars, apiVars, tasks,
                            typewriters, onCompleteCalls, timers>>]_vars

\* Enter was pressed on a line of one space in Idle, after one command
C24_Witness ==
    /\ ~isPlayingGame /\ ~isSigningGuestbook
    /\ lastKey = [key |-> "Enter", input |-> BLANK]
    /\ currentCommand = EMPTY
    /\ Len(history) = 1

\* the registered names that start with p, letter case of p ignored, in
\* registration order
prefixMatches(p) ==
    SelectSeq(AVAILABLE_COMMANDS,
              LAMBDA name : /\ Len(p) <= Len(name)
                            /\ \A k \in 1..Len(p) : lowerChar(p[k]) = name[k])

\* the step is a press of Tab
TabPressed == lastKey'.key = "Tab" /\ lastKey' # lastKey

\* C25: Tab on the input p: with exactly one registered name starting with p
\* (case-insensitively) the buffer becomes that name; with two or more the
\* buffer is unchanged and all of them are listed in registration order;
\* with none, buffer and suggestions are unchanged.  Names are matched as
\* whole strings: 'guestbook' never yields 'sign guestbook'.
C25_TabCompletes ==
    [][TabPressed =>
          LET p == currentCommand
              n == Len(prefixMatches(p))
          IN  /\ n = 1 => /\ currentCommand' = prefixMatches(p)[1]
                          /\ ~showSuggestions'
                          /\ UNCHANGED suggestions
              /\ n > 1 => /\ currentCommand' = p
                          /\ suggestions' = prefixMatches(p)
                          /\ showSuggestions'
              /\ n = 0 => UNCHANGED <<currentCommand, suggestions, showSuggestions>>
              /\ p = GUESTBOOK => currentCommand' = GUESTBOOK
              /\ UNCHANGED <<history, gameVars, signVars, tasks>>]_vars

\* Tab on 'G' lists 'game' and 'guestbook' and leaves the buffer
C25_Witness ==
    /\ lastKey = [key |-> "Tab", input |-> <<"G">>]
    /\ currentCommand = <<"G">>
    /\ showSuggestions
    /\ suggestions = <<GAME, GUESTBOOK>>

\* C26: while the game or the signing dialog is active, Tab neither
\* replaces the input buffer nor shows suggestions.
C26_NoCompletionInSubSession ==
    [][((isPlayingGame \/ isSigningGuestbook) /\ TabPressed)
          => (currentCommand' = currentCommand /\ ~showSuggestions')]_vars

\* the budget of the current window is exhausted
Exhausted == rateLimited(apiRequestCount, apiRateLimitResetTime)

\* C27: once the 50-call budget of the window is exhausted, no further
\* checkHealth, listEntries or createEntry call is admitted: no call is
\* counted and no request of such a call is issued.
C27_BudgetEnforced ==
    [][Exhausted =>
          /\ apiRequestCount' = apiRequestCount
          /\ \A i \in DOMAIN tasks :
                 (i \in DOMAIN tasks' /\ tasks'[i].stage # tasks[i].stage)
                     => tasks'[i].stage \notin {"health", "rhealth"}]_vars

\* C29: checkHealth never throws.  It resolves false for a network error, a
\* non-2xx status, an unparsable or unexpected body and the rate limit, and
\* true only for a response with status OK and database connected.
C29_HealthNeverThrows ==
    [][\A i \in DOMAIN tasks, o \in Outcomes :
          NetworkResponse(i, o) =>
              LET t == tasks[i]
              IN  /\ (t.kind = "apiStatus" /\ t.stage = "health")
                        => /\ Last(history').command = API_STATUS_RESULTS
                           /\ Last(history').output.e = "healthy" <=> o = "ok"
                  /\ (t.kind = "apiStatus" /\ t.stage = "cors"
                                           /\ rateLimited(t.count, t.resetTime))
                        => /\ Last(history').command = API_STATUS_RESULTS
                           /\ Last(history').output.e = "failed"
                  /\ (t.kind = "guestbook" /\ t.stage = "rhealth")
                        => IF o = "ok"
                           THEN tasks'[i].stage = "rget"
                           ELSE guestbookError' = "unavailable"]_vars

\* 'api-status' has reported a healthy gateway, and then a failed check
\* with the last call of the budget
C29_Witness ==
    /\ Len(history) = 4
    /\ history[2].command = API_STATUS_RESULTS
    /\ history[2].output.e = "healthy"
    /\ history[4].command = API_STATUS_RESULTS
    /\ history[4].output.e = "failed"
    /\ apiRequestCount >= MAX_REQUESTS_PER_MINUTE

\* 1 <= len(name) <= 50 and 1 <= len(message) <= 500
validLengths(t) == Len(t.name) \in 1..50 /\ Len(t.msg) \in 1..500

\* C28: createEntry issues the POST only if 1 <= len(name) <= 50 and
\* 1 <= len(message) <= 500; with any other name or message the submission
\* fails and no POST is issued.
C28_PostOnlyIfValid ==
    [][/\ \A i \in DOMAIN tasks' :
             (tasks'[i].kind = "sign" /\ tasks'[i].stage \in {"post", "rhealth", "rget"})
                 => validLengths(tasks'[i])
       /\ \A i \in DOMAIN tasks, o \in Outcomes :
             (tasks[i].kind = "sign" /\ ~validLengths(tasks[i]) /\ NetworkResponse(i, o))
                 => /\ tasks' = RemoveAt(tasks, i)
                    /\ guestbookError' # ""
                    /\ \E k \in DOMAIN history' :
                          /\ history'[k].output.kind = "submitError"
                          /\ k \in DOMAIN history => history[k] # history'[k]]_vars

\* the POST of a 50-character name and a 500-character message is in flight
C28_Witness ==
    \E i \in DOMAIN tasks :
        /\ tasks[i].kind = "sign"
        /\ tasks[i].stage = "post"
        /\ Len(tasks[i].name) = 50
        /\ Len(tasks[i].msg) = 500

\* C30: the feedback of an accepted guess is computed position by position:
\* 'correct' where the guess has the target's letter, otherwise 'present'
\* where its letter occurs anywhere in the target, otherwise 'absent'; the
\* positions are independent, without letter-frequency accounting.
C30_PositionalFeedback ==
    \A i \in acceptedGuesses :
        LET guess == toUpperCase(trim(history[i].command))
            fb    == history[i].output.fb
        IN  /\ Len(fb) = Len(guess)
            /\ \A k \in 1..Len(guess) :
                   fb[k] = IF k <= Len(gameWord) /\ guess[k] = gameWord[k]
                           THEN "green"
                           ELSE IF \E j \in 1..Len(gameWord) : gameWord[j] = guess[k]
                           THEN "yellow"
                           ELSE "gray"

\* 'eAgLe' against APPLE: the first E is 'present' although the only E of the
\* target is matched by the last letter
C30_Witness ==
    /\ gameWord = <<"A","P","P","L","E">>
    /\ \E i \in acceptedGuesses :
           /\ history[i].command = EAGLE_MIXED
           /\ history[i].output.fb = <<"yellow", "yellow", "gray", "green", "green">>

\* C31: the word bank from which the target word is chosen holds at least
\* 65 words.
C31_WordBankSize ==
    /\ gameWord # EMPTY => \E k \in DOMAIN flatWordBank : flatWordBank[k] = gameWord
    /\ Len(flatWordBank) >= 65

\* C32: the completion of an earlier guestbook submission never changes the
\* mode or the draft of a signing dialog started after it: a dialog at step
\* name or message stays in the signing mode when a response arrives.
C32_DialogSurvivesCompletion ==
    [][\A i \in DOMAIN tasks, o \in Outcomes :
          (/\ NetworkResponse(i, o)
           /\ isSigningGuestbook
           /\ guestbookStep \in {"name", "message"})
              => /\ isSigningGuestbook'
                 /\ UNCHANGED <<guestbookStep, guestbookName, guestbookMessage>>]_vars

\* the names of the registered commands
Registered == {AVAILABLE_COMMANDS[k] : k \in DOMAIN AVAILABLE_COMMANDS}

\* what the guess branch and the signing branch write
SubSessionOutputs ==
    {"invalidLength", "win", "loss", "tryAgain",
     "namePrompt", "submitting", "submitError", "undefined"}

\* C33: while the game or the signing dialog is active no registry handler
\* runs: a line that is the name of a registered command ('clear', 'about',
\* 'game', 'sign guestbook') is taken as a guess, a name or a message; the
\* transcript is not cleared and no other sub-session is started.
C33_SubSessionTakesLine ==
    [][\A cmd \in RouteLines :
          (/\ EnterKey(cmd)
           /\ isPlayingGame \/ isSigningGuestbook
           /\ toLowerCase(trim(cmd)) \in Registered)
              => /\ Len(history') = Len(history) + 1
                 /\ SubSeq(history', 1, Len(history)) = history
                 /\ Last(history').command = cmd
                 /\ Last(history').output.kind \in SubSessionOutputs
                 /\ UNCHANGED <<timers, gameWord, gameCategory>>
                 /\ isPlayingGame => /\ ~isSigningGuestbook'
                                     /\ UNCHANGED <<signVars, tasks>>
                 /\ isSigningGuestbook => /\ ~isPlayingGame'
                                          /\ UNCHANGED gameVars]_vars

\* in a game 'clear' was taken as a guess and 'sign guestbook' was rejected
\* as one
C33_Witness ==
    /\ isPlayingGame
    /\ Len(history) = 3
    /\ history[2].command = CLEAR
    /\ history[2].output.kind = "tryAgain"
    /\ history[3].command = SIGN_GUESTBOOK
    /\ history[3].output.kind = "invalidLength"

\* C34: a signing dialog that 'exit' ends with the 'Guestbook signing
\* cancelled' entry has not invoked createEntry: its message was never
\* submitted, so no submission of it is pending or completed.
C34_CancelledNeverSubmitted ==
    [][(/\ isSigningGuestbook
        /\ Appends
        /\ Last(history').output.kind = "cancelled")
          => guestbookStep # "complete"]_vars

\* C35: from every reachable state, whatever is pending or has failed, the
\* line 'exit' leaves the session in Idle: neither the game nor the signing
\* dialog is active afterwards.
C35_ExitReachesIdle ==
    [][\A cmd \in SessionLines :
          (EnterKey(cmd) /\ toLowerCase(trim(cmd)) = EXIT)
              => (~isPlayingGame' /\ ~isSigningGuestbook')]_vars

\* 'exit' has ended a signing dialog whose submission is still pending
C35_Witness ==
    /\ lastKey = [key |-> "Enter", input |-> EXIT]
    /\ history # <<>>
    /\ Last(history).output.kind = "cancelled"
    /\ \E i \in DOMAIN tasks : tasks[i].kind = "sign"
    /\ ~isPlayingGame
    /\ ~isSigningGuestbook

\* C36: when the typing animation of a component command completes or its
\* 10-second fallback fires, exactly the entry that carries the command's id
\* is replaced by the rendered component, at the same index; every other
\* entry, of the same command or not, is left as it was.
C36_CompletionReplacesOwnEntry ==
    [][\A t \in timers :
          (TimerFires(t) /\ t.kind \in {"onComplete", "fallback"})
              => /\ Len(history') = Len(history)
                 /\ \A k \in DOMAIN history :
                        IF history[k].id = t.id
                        THEN history'[k] = Entry(history[k].command,
                                                 OutA("component", t.name), t.id)
                        ELSE history'[k] = history[k]]_vars

\* 'about' was typed twice; the second one has been replaced by its
\* component while the first is still being typed
C36_Witness ==
    /\ Len(history) >= 2
    /\ history[1].command = ABOUT
    /\ history[1].output.kind = "typewriter"
    /\ history[2].command = ABOUT
    /\ history[2].output.kind = "component"
    /\ history[2].id # history[1].id

\* C37: a listing of the guestbook consumes exactly one unit of the budget
\* of 50 calls per window, and it is admitted whenever the calls counted
\* in the window are fewer than 50.
C37_ListingCostsOneUnit ==
    [][\A cmd \in RateLines :
          (/\ EnterKey(cmd)
           /\ toLowerCase(trim(cmd)) = GUESTBOOK)
              => IF apiRequestCount < MAX_REQUESTS_PER_MINUTE
                 THEN /\ apiRequestCount' = apiRequestCount + 1
                      /\ Len(tasks') = Len(tasks) + 1
                 ELSE UNCHANGED <<apiRequestCount, tasks>>]_vars

\* C38: when the POST of a submission has succeeded, the submission reports
\* success and a placeholder of it is resolved to the success entry, also
\* when the refresh of the listing that follows fails, is rate limited or
\* finds the gateway unhealthy.
C38_SuccessDespiteRefresh ==
    [][\A i \in DOMAIN tasks, o \in Outcomes :
          (/\ NetworkResponse(i, o)
           /\ tasks[i].kind = "sign"
           /\ tasks[i].stage \in {"rhealth", "rget"}
           /\ tasks' = RemoveAt(tasks, i)
           /\ \E k \in DOMAIN history :
                  /\ history[k].command = tasks[i].cmd
                  /\ history[k].output.kind = "submitting")
              => \E k \in DOMAIN history :
                     /\ history[k].command = tasks[i].cmd
                     /\ history[k].output.kind = "submitting"
                     /\ history'[k].command = ENTRY_SUBMITTED
                     /\ history'[k].output.kind = "success"]_vars

\* C39: closing a chat frame removes the entry of that frame, in whatever
\* letter case or with whatever white space its 'chat' line was typed, and
\* leaves every other entry, other open chat frames included, in place.
C39_CloseRemovesOwnFrame ==
    [][\A i \in DOMAIN history :
          ChatClose(i) => history' = RemoveAt(history, i)]_vars

=============================================================================
